---- MODULE Spec2Model ----
(***************************************************************************)
(* State-machine model of the AgenticWebsite controller (src/src/App.tsx): *)
(* the tab set and active tab, fixture loads in flight, the single iframe  *)
(* and its injected agent, the message intake with the security rules, and *)
(* workflow runs.  React state is the committed state; an event handler    *)
(* reads the state of the latest render, an async function keeps the       *)
(* values it captured when it was called.                                  *)
(***************************************************************************)
EXTENDS Integers, Sequences, FiniteSets, TLC

VARIABLES
    tabs,          \* useState<Tab[]>: sequence of [id, fixture, title, srcDoc]
    activeTabId,   \* useState(tabs[0].id)
    nextId,        \* next value crypto.randomUUID() hands out
    loads,         \* every loadFixture call so far, in call order
    crashed,       \* the render threw (activeTab undefined) and React unmounted App
    logs,          \* useState<LogItem[]>: most recent first
    alerts,        \* useState<AlertItem[]>: most recent first
    effectLogs,    \* the `logs` the registered onMsg closure reads (render of the last effect run)
    now,           \* Date.now(), in units of TickMs
    frame,         \* the iframe: the document it holds and what that document still has to announce
    inbox,         \* messages posted to the controller window, not yet dispatched
    cmds,          \* commands posted to the iframe's window, not yet handled
    runs,          \* the runWorkflow calls so far, each with its captured tab and position
    closed         \* the closeTab calls so far: what each was given and what it left (read by no action)

vars == <<tabs, activeTabId, nextId, loads, crashed, logs, alerts, effectLogs, now,
          frame, inbox, cmds, runs, closed>>

----------------------------------------------------------------------------
(* Bounds *)
MaxTabs == 3      \* ids crypto.randomUUID() may hand out in one behaviour
MaxLoads == 3     \* loadFixture calls the user makes in one behaviour
MaxLogs == 4      \* messages posted to the controller in one behaviour
MaxRunLogs == 2   \* the same, in the behaviours with a run and tab switches
MaxAssertLogs == 3  \* the same, in the behaviours with two assertText steps
MaxSeqLogs == 6   \* the same, in the behaviours with one run and one tab
MaxSampleLogs == 30  \* the same, in the behaviours of a whole sample run
MaxCloses == 2       \* calls of closeTab
MaxFields == 2    \* fields of a submitted form
MaxRuns == 2      \* runWorkflow calls in one behaviour
MaxTicks == 3     \* clock ticks in one behaviour
TickMs == 400     \* milliseconds per clock tick

----------------------------------------------------------------------------
(* Values *)
FixtureKey == {"login", "search", "form"}
NoId == 0          \* stands for `undefined` where an id is expected
NoDoc == <<>>      \* srcDoc of a tab nothing was loaded into yet (undefined)

\* The markup the fixture server returns for a key (external collaborator):
\* a sequence of markup tokens.  One fixture closes its body, one does not.
fetchText(key) ==
    CASE key = "login"  -> <<"<body>", "login-form", "</body>">>
      [] key = "search" -> <<"<body>", "search-form", "</body>", "<!--eof-->">>
      [] key = "form"   -> <<"generic-form">>

\* The body of an answer with an HTTP error status (404, 500): fetch resolves
\* with it, and res.text() returns it like any other body
ErrorPage == <<"<body>", "not-found", "</body>">>

AGENT == "<script>AGENT</script>"

RECURSIVE IndexOf(_, _, _)
\* position of the first occurrence of token x in s at or after i, 0 if none
IndexOf(s, x, i) ==
    IF i > Len(s) THEN 0
    ELSE IF s[i] = x THEN i
    ELSE IndexOf(s, x, i + 1)

\* injectAgent: put the agent script before the first </body>, else at the end
injectAgent(rawHtml) ==
    LET p == IndexOf(rawHtml, "</body>", 1)
    IN  IF p > 0
        THEN SubSeq(rawHtml, 1, p - 1) \o <<AGENT>> \o SubSeq(rawHtml, p, Len(rawHtml))
        ELSE rawHtml \o <<AGENT>>

----------------------------------------------------------------------------
(* Derived state *)
TabIds(ts) == {ts[i].id : i \in 1..Len(ts)}

RECURSIVE find(_, _, _)
\* Array.prototype.find over ts from index i: first tab with P-id, else NoTab
NoTab == [id |-> NoId, fixture |-> "", title |-> "", srcDoc |-> NoDoc]
find(ts, ok, i) ==
    IF i > Len(ts) THEN NoTab
    ELSE IF ts[i].id \in ok THEN ts[i]
    ELSE find(ts, ok, i + 1)

\* useMemo(() => tabs.find(t => t.id === activeTabId)!)
activeTabOf(ts, a) == find(ts, {a}, 1)
activeTab == activeTabOf(tabs, activeTabId)

\* the render dereferences activeTab.fixture: it throws when no tab matches
renderThrows(ts, a) == activeTabOf(ts, a) = NoTab

RECURSIVE filterOut_dropsRest(_, _)
filterOut_dropsRest(ts, id) ==
    IF ts = <<>> THEN <<>>
    ELSE IF Head(ts).id # id THEN <<Head(ts)>> \o filterOut_dropsRest(Tail(ts), id)
    ELSE <<>>
RECURSIVE filterOut(_, _)
\* prev.filter(t => t.id !== id)
filterOut(ts, id) ==
    IF ts = <<>> THEN <<>>
    ELSE IF Head(ts).id # id THEN <<Head(ts)>> \o filterOut(Tail(ts), id)
    ELSE filterOut(Tail(ts), id)

\* prev.map(t => t.id === id ? {...t, fixture: key, title: key, srcDoc} : t)
mapLoaded(ts, id, key, doc) ==
    [i \in 1..Len(ts) |->
        IF ts[i].id = id
        THEN [ts[i] EXCEPT !.fixture = key, !.title = key, !.srcDoc = doc]
        ELSE ts[i]]

----------------------------------------------------------------------------
(* Strings are sequences of one-character strings *)
Upper == <<"A","B","C","D","E","F","G","H","I","J","K","L","M",
           "N","O","P","Q","R","S","T","U","V","W","X","Y","Z">>
Lower == <<"a","b","c","d","e","f","g","h","i","j","k","l","m",
           "n","o","p","q","r","s","t","u","v","w","x","y","z">>

toLowerChar(c) ==
    IF \E i \in 1..Len(Upper) : Upper[i] = c
    THEN Lower[CHOOSE i \in 1..Len(Upper) : Upper[i] = c]
    ELSE c

\* String.prototype.toLowerCase
toLowerCase(s) == [i \in 1..Len(s) |-> toLowerChar(s[i])]

\* String.prototype.includes
includes(s, sub) ==
    \E i \in 0..(Len(s) - Len(sub)) : SubSeq(s, i + 1, i + Len(sub)) = sub

\* String.prototype.startsWith
startsWith(s, pre) == Len(s) >= Len(pre) /\ SubSeq(s, 1, Len(pre)) = pre

RECURSIVE join(_, _)
\* Array.prototype.join(sep)
join(ss, sep) ==
    IF ss = <<>> THEN <<>>
    ELSE IF Len(ss) = 1 THEN ss[1]
    ELSE ss[1] \o sep \o join(Tail(ss), sep)

PASS == <<"p","a","s","s">>
SCRIPT == <<"<","s","c","r","i","p","t">>
CLICK == <<"c","l","i","c","k">>
SPACE == <<" ">>

\* the characters of the event names the agent and the rules know
chars(event) ==
    CASE event = "click"            -> CLICK
      [] event = "clicked"          -> CLICK \o <<"e","d">>
      [] event = "ready"            -> <<"r","e","a","d","y">>
      [] event = "form_submit"      -> <<"f","o","r","m","_","s","u","b","m","i","t">>
      [] event = "command_received" -> <<"c","o","m","m","a","n","d","_","r","e","c","e","i","v","e","d">>
      [] event = "autofilled"       -> <<"a","u","t","o","f","i","l","l","e","d">>
      [] event = "assert_result"    -> <<"a","s","s","e","r","t","_","r","e","s","u","l","t">>
      [] event = "error"            -> <<"e","r","r","o","r">>
      [] event = "pong"             -> <<"p","o","n","g">>
      [] event = "assert OK"        -> <<"a","s","s","e","r","t"," ","O","K">>
      [] event = "assert FAILED"    -> <<"a","s","s","e","r","t"," ","F","A","I","L","E","D">>
      [] OTHER                      -> <<"?">>

(* Payloads.  kind "none": undefined, null or another falsy value;          *)
(* "string": a truthy value that is no object; "object": a mapping, its     *)
(* fields <<name, value>> in insertion order.                               *)
NoPayload == [kind |-> "none", fields |-> <<>>]
StringPayload == [kind |-> "string", fields |-> <<>>]
ObjectPayload(fs) == [kind |-> "object", fields |-> fs]

\* Object.keys(payload) and Object.values(payload).map(String)
keys(payload) == [i \in 1..Len(payload.fields) |-> payload.fields[i][1]]
values(payload) == [i \in 1..Len(payload.fields) |-> payload.fields[i][2]]

\* `${event} ${payload ? JSON.stringify(payload) : ''}`: the text up to and
\* including the blank, and the payload the JSON text that follows it encodes
logMsg(event, payload) ==
    [text |-> chars(event) \o SPACE,
     json |-> IF payload.kind = "none" THEN NoPayload ELSE payload]

\* x.msg.startsWith('click'): 'click' holds no blank, so the text before the
\* first blank decides
msgStartsWithClick(msg) == startsWith(msg.text, CLICK)

----------------------------------------------------------------------------
(* Security rules: runSecurityChecks *)
ClickWindowMs == 800
ClickStormCount == 4

AlertItem(t, tabId, kind, detail) ==
    [ts |-> t, tabId |-> tabId, kind |-> kind, detail |-> detail]

\* Object.keys(payload).some(k => k.toLowerCase().includes('pass'))
hasPassKey_caseSensitive(payload) ==
    \E i \in 1..Len(payload.fields) : includes(keys(payload)[i], PASS)
hasPassKey(payload) ==
    \E i \in 1..Len(payload.fields) : includes(toLowerCase(keys(payload)[i]), PASS)

\* Object.values(payload).map(String).join(' ').includes('<script')
hasScriptValue_noSeparator(payload) == includes(join(values(payload), <<>>), SCRIPT)
hasScriptValue(payload) == includes(join(values(payload), SPACE), SCRIPT)

\* logs.filter(x => (now - x.ts) < 800 && x.msg.startsWith('click')).length
recentClicks(lg, t) ==
    Cardinality({i \in 1..Len(lg) :
        (t - lg[i].ts) < ClickWindowMs /\ msgStartsWithClick(lg[i].msg)})

\* the form_submit block: the alerts it raises, in the order of the raise calls
formSubmitAlerts_exclusive(payload, tabId, t) ==
    IF hasPassKey(payload)
    THEN <<AlertItem(t, tabId, "SensitiveSubmit", "Form submitted with a password field.")>>
    ELSE IF hasScriptValue(payload)
    THEN <<AlertItem(t, tabId, "PotentialXSS", "User input contained <script.")>>
    ELSE <<>>
formSubmitAlerts(payload, tabId, t) ==
    (IF hasPassKey(payload)
     THEN <<AlertItem(t, tabId, "SensitiveSubmit", "Form submitted with a password field.")>>
     ELSE <<>>)
    \o
    (IF hasScriptValue(payload)
     THEN <<AlertItem(t, tabId, "PotentialXSS", "User input contained <script.")>>
     ELSE <<>>)

\* runSecurityChecks(event, payload, tabId), reading the logs lg of its closure
\* at time t: the alerts it raises, in the order of the raise calls
runSecurityChecks(event, payload, tabId, lg, t) ==
    (IF event = "form_submit" /\ payload.kind = "object"
     THEN formSubmitAlerts(payload, tabId, t)
     ELSE <<>>)
    \o
    (IF event = "click" /\ recentClicks(lg, t) >= ClickStormCount
     THEN <<AlertItem(t, tabId, "ClickStorm", "Rapid clicking detected.")>>
     ELSE <<>>)

raise_once(as, raised) == IF raised = <<>> THEN as ELSE <<Head(raised)>> \o as
RECURSIVE raise(_, _)
\* raise, once per alert: setAlerts(a => [alert, ...a])
raise(as, raised) ==
    IF raised = <<>> THEN as
    ELSE raise(<<Head(raised)>> \o as, Tail(raised))

----------------------------------------------------------------------------
(* The iframe and the messages between it and the controller *)
ReadyAnnouncements == 3   \* DOMContentLoaded, load and the 200 ms timer

\* submitted: a click of the agent has submitted a form of this document
BlankFrame == [doc |-> NoDoc, readyLeft |-> 0, loadPending |-> FALSE, submitted |-> FALSE]

\* the iframe after a commit: React writes srcdoc only when the value changed,
\* and a changed srcdoc navigates the iframe to a new document
frameAfter(fr, ts, a) ==
    LET doc == activeTabOf(ts, a).srcDoc IN
    IF renderThrows(ts, a) THEN BlankFrame
    ELSE IF doc = fr.doc THEN fr
    ELSE [doc |-> doc,
          readyLeft |-> IF doc = NoDoc THEN 0 ELSE ReadyAnnouncements,
          loadPending |-> TRUE,
          submitted |-> FALSE]

\* messages already posted stay queued when their document is replaced
inboxAfter(inb, fr, fr2) ==
    IF fr2 = fr THEN inb ELSE [i \in 1..Len(inb) |-> [inb[i] EXCEPT !.old = TRUE]]

\* commands queued for a window that is replaced are never dispatched
cmdsAfter(cs, fr, fr2) == IF fr2 = fr THEN cs ELSE <<>>

\* the onMsg effect runs again, with the logs of that render, when activeTabId changed
effectLogsAfter(eff, a, a2, lg) == IF a2 = a THEN eff ELSE lg

\* A message to the controller window: data (FALSE: e.data is null, undefined
\* or otherwise falsy), type ("": data has no type or a falsy one), event and
\* payload as posted; ctx (the tab whose document posted it) and old (that
\* document has been replaced since) are facts about the sender the controller
\* does not read.
\* send(event, payload) of the agent in the document of tab ctx
agentEvent(event, payload, ctx) ==
    [data |-> TRUE, type |-> "agentic:event", event |-> event, payload |-> payload,
     ctx |-> ctx, old |-> FALSE]

LogItem(t, tabId, msg) == [ts |-> t, tabId |-> tabId, msg |-> msg]

----------------------------------------------------------------------------
(* Workflows *)
Step(type, fixture, selector, includesText) ==
    [type |-> type, fixture |-> fixture, selector |-> selector, includes |-> includesText]

sampleWorkflow == <<
    Step("navigate", "login", "", ""),
    Step("fill", "", "#username,#password", ""),
    Step("click", "", "#login-btn", ""),
    Step("assertText", "", "#status", "Welcome, alice!"),
    Step("navigate", "search", "", ""),
    Step("fill", "", "#q", ""),
    Step("click", "", "#go", ""),
    Step("assertText", "", "#results", "Result A") >>

\* a shorter step list with every kind of step, for runWorkflow(steps)
shortWorkflow == <<
    Step("navigate", "search", "", ""),
    Step("click", "", "#go", ""),
    Step("assertText", "", "#results", "Result A"),
    Step("fill", "", "#q", "") >>

----------------------------------------------------------------------------
Init ==
    /\ tabs = <<[id |-> 1, fixture |-> "login", title |-> "login", srcDoc |-> NoDoc]>>
    /\ activeTabId = 1
    /\ nextId = 2
    \* the mount effect has called loadFixture(activeTab, activeTab.fixture)
    /\ loads = <<[tab |-> 1, key |-> "login", status |-> "fetching", run |-> 0]>>
    /\ crashed = FALSE
    /\ logs = <<>>
    /\ alerts = <<>>
    /\ effectLogs = <<>>
    /\ now = 0
    /\ frame = BlankFrame
    /\ inbox = <<>>
    /\ cmds = <<>>
    /\ runs = <<>>
    /\ closed = <<>>

\* loadFixture up to its first await: the fetch is in flight
startLoad(ls, tabId, key, run) ==
    Append(ls, [tab |-> tabId, key |-> key, status |-> "fetching", run |-> run])

UserLoads == Cardinality({i \in 1..Len(loads) : loads[i].run = 0})

\* closeTab's choice of the next active id
closeTabActive_lastRemaining(ts, a, id) ==
    IF a = id /\ Len(ts) > 1 THEN filterOut(ts, id)[Len(ts) - 1].id ELSE a
closeTabActive(ts, a, id) ==
    IF a = id /\ Len(ts) > 1 THEN find(ts, TabIds(ts) \ {id}, 1).id ELSE a

\* what a commit of tabs ts2 and active id a2 does besides the state itself
Commit(ts2, a2) ==
    /\ crashed' = (crashed \/ renderThrows(ts2, a2))
    /\ frame' = frameAfter(frame, ts2, a2)
    /\ inbox' = inboxAfter(inbox, frame, frame')
    /\ cmds' = cmdsAfter(cmds, frame, frame')
    /\ effectLogs' = effectLogsAfter(effectLogs, activeTabId, a2, logs)

openTab(fixture) ==
    /\ ~crashed
    /\ nextId <= MaxTabs
    /\ UserLoads < MaxLoads
    /\ tabs' = Append(tabs, [id |-> nextId, fixture |-> fixture,
                             title |-> fixture, srcDoc |-> NoDoc])
    /\ activeTabId' = nextId
    /\ nextId' = nextId + 1
    /\ loads' = startLoad(loads, nextId, fixture, 0)
    /\ Commit(tabs', activeTabId')
    /\ UNCHANGED <<closed, logs, alerts, now, runs>>

closeTab(id) ==
    /\ ~crashed
    /\ tabs' = filterOut(tabs, id)
    /\ activeTabId' = closeTabActive(tabs, activeTabId, id)
    /\ Commit(tabs', activeTabId')
    /\ closed' = Append(closed, [id |-> id, active |-> activeTabId, before |-> tabs,
                                 after |-> tabs', activeAfter |-> activeTabId',
                                 threw |-> renderThrows(tabs', activeTabId')])
    /\ UNCHANGED <<nextId, loads, logs, alerts, now, runs>>

\* the tab pill's onClick
setActiveTabId(id) ==
    /\ ~crashed
    /\ id \in TabIds(tabs)
    /\ activeTabId' = id
    /\ Commit(tabs, activeTabId')
    /\ UNCHANGED <<closed, tabs, nextId, loads, logs, alerts, now, runs>>

\* the state setter itself, given any id: it stores the id without looking
\* it up in tabs
setActive(id) ==
    /\ ~crashed
    /\ activeTabId' = id
    /\ Commit(tabs, activeTabId')
    /\ UNCHANGED <<closed, tabs, nextId, loads, logs, alerts, now, runs>>

\* the address bar: <select onChange> and the Reload button
selectFixture(key) ==
    /\ ~crashed
    /\ UserLoads < MaxLoads
    /\ loads' = startLoad(loads, activeTab.id, key, 0)
    /\ UNCHANGED <<closed, tabs, activeTabId, nextId, crashed, logs, alerts, effectLogs, now,
                   frame, inbox, cmds, runs>>

reload ==
    /\ ~crashed
    /\ UserLoads < MaxLoads
    /\ loads' = startLoad(loads, activeTab.id, activeTab.fixture, 0)
    /\ UNCHANGED <<closed, tabs, activeTabId, nextId, crashed, logs, alerts, effectLogs, now,
                   frame, inbox, cmds, runs>>

\* what a settled fetch writes: the setTabs call of loadFixture
loadedTabs_raw(ts, ld) == mapLoaded(ts, ld.tab, ld.key, fetchText(ld.key))
loadedTabs(ts, ld) == mapLoaded(ts, ld.tab, ld.key, injectAgent(fetchText(ld.key)))

\* loadFixture after its awaits, called from the UI: fetch and text() resolved
loadFixtureDone(i) ==
    /\ i \in 1..Len(loads)
    /\ loads[i].status = "fetching"
    /\ loads[i].run = 0
    /\ loads' = [loads EXCEPT ![i].status = "done"]
    /\ tabs' = IF crashed THEN tabs ELSE loadedTabs(tabs, loads[i])
    /\ Commit(tabs', activeTabId)
    /\ UNCHANGED <<closed, activeTabId, nextId, logs, alerts, now, runs>>

\* the server answered with an error status: fetch resolves, loadFixture does
\* not look at res.ok and goes on with the body of the answer
loadFixtureHttpError(i) ==
    /\ i \in 1..Len(loads)
    /\ loads[i].status = "fetching"
    /\ loads[i].run = 0
    /\ loads' = [loads EXCEPT ![i].status = "http-error"]
    /\ tabs' = IF crashed THEN tabs
               ELSE mapLoaded(tabs, loads[i].tab, loads[i].key, injectAgent(ErrorPage))
    /\ Commit(tabs', activeTabId)
    /\ UNCHANGED <<closed, activeTabId, nextId, logs, alerts, now, runs>>

\* fetch rejected: loadFixture's promise rejects, nothing is written
loadFixtureFail(i) ==
    /\ i \in 1..Len(loads)
    /\ loads[i].status = "fetching"
    /\ loads[i].run = 0
    /\ loads' = [loads EXCEPT ![i].status = "failed"]
    /\ UNCHANGED <<closed, tabs, activeTabId, nextId, crashed, logs, alerts, effectLogs, now,
                   frame, inbox, cmds, runs>>

NextCtx ==
    \/ \E f \in FixtureKey : openTab(f)
    \/ \E id \in TabIds(tabs) : closeTab(id)
    \/ \E id \in TabIds(tabs) : setActiveTabId(id)
    \/ \E k \in FixtureKey : selectFixture(k)
    \/ reload
    \/ \E i \in 1..Len(loads) : loadFixtureDone(i)
    \/ \E i \in 1..Len(loads) : loadFixtureFail(i)
    \/ \E i \in 1..Len(loads) : loadFixtureHttpError(i)

SpecCtx == Init /\ [][NextCtx]_vars

\* loads and their outcomes: the user picks fixtures in the address bar, opens
\* a second tab and closes tabs while fetches settle one way or another
NextLoads ==
    \/ Len(tabs) = 1 /\ openTab("search")
    \/ \E id \in TabIds(tabs) : closeTab(id)
    \/ \E k \in FixtureKey : selectFixture(k)
    \/ reload
    \/ \E i \in 1..Len(loads) : loadFixtureDone(i)
    \/ \E i \in 1..Len(loads) : loadFixtureFail(i)
    \/ \E i \in 1..Len(loads) : loadFixtureHttpError(i)

SpecLoads == Init /\ [][NextLoads]_vars

\* the tab bar alone: tabs are opened, selected and closed while loads complete
NextTabs ==
    \/ openTab("search")
    \/ \E id \in TabIds(tabs) : closeTab(id)
    \/ \E id \in TabIds(tabs) : setActiveTabId(id)
    \/ \E i \in 1..Len(loads) : loadFixtureDone(i)

SpecTabs == Init /\ [][NextTabs]_vars

\* the same with the setter called for any id, also one that was closed or
\* never handed out
NextCalls ==
    \/ openTab("search")
    \/ \E id \in TabIds(tabs) : closeTab(id)
    \/ \E id \in 1..MaxTabs : setActive(id)
    \/ \E i \in 1..Len(loads) : loadFixtureDone(i)

SpecCalls == Init /\ [][NextCalls]_vars

----------------------------------------------------------------------------
(* Workflow runs.  A run is [tab, steps, pc, at]: the id of the tab captured  *)
(* by `const tab = activeTab`, the step list, the index of the current step,  *)
(* the {ok} waiting on the reply port of an assertText step,                  *)
(* and where the run is suspended: "fetch" (await loadFixture), "ready"       *)
(* (await waitForIframeReady), "delay" (await delay), "assert" (await         *)
(* assertText), "done" or "aborted".  The code between two awaits runs in one *)
(* piece, so it is one transition.                                            *)
(* Four fields record what happened and are read by no action: started      *)
(* (the steps begun, in order), asserts (<<step, ok>> of every assertText    *)
(* settled), assertBy (what settled each of them: the reply of the agent,    *)
(* with the outcome of its DOM operation, or the timer) and readyBy (what    *)
(* ended the last waitForIframeReady).                                       *)
NoReply == [step |-> 0, ok |-> FALSE, outcome |-> "none"]
NoCause == [kind |-> "none", ctx |-> NoId, old |-> FALSE]
\* The run's latest waitForIframeReady: its done flag, what it has registered
\* (onMsg on the window, onLoad on the iframe, tid: the 2.5 s timer) and how
\* often it called resolve()
NoWait == [done |-> FALSE, onMsg |-> FALSE, onLoad |-> FALSE, tid |-> FALSE, resolved |-> 0]
\* the executor of waitForIframeReady; iframeRef.current is null once App is
\* unmounted (dead)
newWait(dead) ==
    [done |-> FALSE, onMsg |-> TRUE, onLoad |-> ~dead, tid |-> TRUE, resolved |-> 0]
cleanup_keepsTimer(w) == [w EXCEPT !.onMsg = FALSE, !.onLoad = FALSE]
cleanup(w) == [w EXCEPT !.onMsg = FALSE, !.onLoad = FALSE, !.tid = FALSE]
\* whether wait w has the listener or timer that an occurrence of kind calls
listens(w, kind) ==
    CASE kind = "ready"   -> w.onMsg
      [] kind = "load"    -> w.onLoad
      [] kind = "timeout" -> w.tid
      [] OTHER -> FALSE
Run(tabId, steps) ==
    [tab |-> tabId, steps |-> steps, pc |-> 1, at |-> "start", reply |-> NoReply,
     started |-> <<>>, asserts |-> <<>>, assertBy |-> <<>>, readyBy |-> NoCause,
     wait |-> NoWait]

Command(command, st, r, ctx) ==
    [command |-> command, selector |-> st.selector, includes |-> st.includes,
     run |-> r, step |-> 0, ctx |-> ctx, port |-> command = "assertText"]

\* postToIframe / the postMessage of assertText: iframeRef.current is null once
\* App is unmounted; otherwise the message goes to the window the iframe holds,
\* which is the document of the active tab (a)
postToIframe(cs, c, a, dead) ==
    IF dead THEN cs ELSE Append(cs, [c EXCEPT !.ctx = a])

\* the body of the for loop for the step at pc, up to its first await.
\* S is [runs, loads, cmds, logs]; a the active tab id; dead: App unmounted
execStep(S, r, a, dead) ==
    LET run == S.runs[r] IN
    IF run.pc > Len(run.steps) THEN [S EXCEPT !.runs[r].at = "done"]
    ELSE
      LET st == run.steps[run.pc]
          c  == [Command(st.type, st, r, a) EXCEPT !.step = run.pc]
      IN  CASE st.type = "navigate" ->
                 [S EXCEPT !.loads = startLoad(@, run.tab, st.fixture, r),
                           !.runs[r].at = "fetch",
                           !.runs[r].started = Append(@, run.pc)]
            [] st.type \in {"fill", "click"} ->
                 [S EXCEPT !.cmds = postToIframe(@, c, a, dead),
                           !.runs[r].at = "delay",
                           !.runs[r].started = Append(@, run.pc)]
            [] st.type = "assertText" ->
                 [S EXCEPT !.cmds = postToIframe(@, c, a, dead),
                           !.runs[r].at = "assert",
                           !.runs[r].started = Append(@, run.pc)]

\* an await of the step at pc settled: the loop goes on with the next step
resume_stopsOnFailedAssert(S, r, a, dead) ==
    LET done == S.runs[r].asserts IN
    IF done # <<>> /\ done[Len(done)] = <<S.runs[r].pc, FALSE>>
    THEN [S EXCEPT !.runs[r].at = "aborted"]
    ELSE execStep([S EXCEPT !.runs[r].pc = @ + 1], r, a, dead)
resume(S, r, a, dead) == execStep([S EXCEPT !.runs[r].pc = @ + 1], r, a, dead)

\* finish() of the run's waitForIframeReady, called for `cause`:
\* if (done) return; done = true; cleanup(); resolve()
finish(S, r, a, dead, cause) ==
    IF S.runs[r].wait.done THEN S
    ELSE resume([S EXCEPT !.runs[r].readyBy = cause,
                          !.runs[r].wait = [cleanup(@) EXCEPT !.done = TRUE,
                                                              !.resolved = @ + 1]],
                r, a, dead)

RECURSIVE finishWaits(_, _, _, _, _)
\* an occurrence (a ready message, the iframe's load) calls the listener of
\* every waitForIframeReady that has one registered for it, from run r on
finishWaits(S, r, a, dead, cause) ==
    IF r > Len(S.runs) THEN S
    ELSE finishWaits(IF listens(S.runs[r].wait, cause.kind)
                     THEN finish(S, r, a, dead, cause) ELSE S,
                     r + 1, a, dead, cause)

HereS == [runs |-> runs, loads |-> loads, cmds |-> cmds, logs |-> logs]
SetS(S) ==
    /\ runs' = S.runs
    /\ loads' = S.loads
    /\ cmds' = S.cmds
    /\ logs' = S.logs

\* the Run Sample button: runWorkflow(steps) up to its first await
runWorkflow(steps) ==
    /\ ~crashed
    /\ Len(runs) < MaxRuns
    /\ SetS(execStep([HereS EXCEPT !.runs = Append(@, Run(activeTab.id, steps))],
                     Len(runs) + 1, activeTabId, crashed))
    /\ UNCHANGED <<closed, tabs, activeTabId, nextId, crashed, alerts, effectLogs, now,
                   frame, inbox>>

\* a navigate step: loadFixture settled, setTabs is called, and the run calls
\* waitForIframeReady before the commit navigates the iframe
navigateLoaded(r) ==
    /\ r \in 1..Len(runs)
    /\ runs[r].at = "fetch"
    /\ \E i \in 1..Len(loads) :
         /\ loads[i].run = r
         /\ loads[i].status = "fetching"
         /\ loads' = [loads EXCEPT ![i].status = "done"]
         /\ tabs' = IF crashed THEN tabs ELSE loadedTabs(tabs, loads[i])
    /\ runs' = [runs EXCEPT ![r].at = "ready", ![r].readyBy = NoCause,
                             ![r].wait = newWait(crashed)]
    /\ crashed' = (crashed \/ renderThrows(tabs', activeTabId))
    /\ frame' = frameAfter(frame, tabs', activeTabId)
    /\ inbox' = inboxAfter(inbox, frame, frame')
    /\ cmds' = cmdsAfter(cmds, frame, frame')
    /\ UNCHANGED <<closed, activeTabId, nextId, logs, alerts, effectLogs, now>>

\* a navigate step whose fetch rejected: the exception ends runWorkflow
navigateFailed(r) ==
    /\ r \in 1..Len(runs)
    /\ runs[r].at = "fetch"
    /\ \E i \in 1..Len(loads) :
         /\ loads[i].run = r
         /\ loads[i].status = "fetching"
         /\ loads' = [loads EXCEPT ![i].status = "failed"]
    /\ runs' = [runs EXCEPT ![r].at = "aborted"]
    /\ UNCHANGED <<closed, tabs, activeTabId, nextId, crashed, logs, alerts, effectLogs, now,
                   frame, inbox, cmds>>

\* waitForIframeReady: setTimeout(finish, 2500) fires
ReadyTimeoutMs == 2500
readyTimeout(r) ==
    /\ r \in 1..Len(runs)
    /\ listens(runs[r].wait, "timeout")
    /\ SetS(finish(HereS, r, activeTabId, crashed,
                   [kind |-> "timeout", ctx |-> NoId, old |-> FALSE]))
    /\ UNCHANGED <<closed, tabs, activeTabId, nextId, crashed, alerts, effectLogs, now,
                   frame, inbox>>

\* the iframe element fires load: onLoad of every pending waitForIframeReady
iframeLoad ==
    /\ frame.loadPending
    /\ frame' = [frame EXCEPT !.loadPending = FALSE]
    /\ SetS(finishWaits(HereS, 1, activeTabId, crashed,
                        [kind |-> "load", ctx |-> activeTabId, old |-> FALSE]))
    /\ UNCHANGED <<closed, tabs, activeTabId, nextId, crashed, alerts, effectLogs, now, inbox>>

\* delay(): setTimeout(res, 200) fires
DelayMs == 200
delayElapsed(r) ==
    /\ r \in 1..Len(runs)
    /\ runs[r].at = "delay"
    /\ SetS(resume(HereS, r, activeTabId, crashed))
    /\ UNCHANGED <<closed, tabs, activeTabId, nextId, crashed, alerts, effectLogs, now,
                   frame, inbox>>

\* the assertText step after its await: the pass/fail record, then the next
\* step; setLogs of a component that was unmounted (dead) changes nothing
assertRecord_alwaysOK(ok, st) == "assert OK"
assertRecord(ok, st) == IF ok THEN "assert OK" ELSE "assert FAILED"
assertSettled(S, r, ok, t, by, dead) ==
    LET run == S.runs[r]
        st  == run.steps[run.pc]
        rec == LogItem(t, run.tab,
                       [text |-> chars(assertRecord(ok, st)), json |-> NoPayload])
    IN  [S EXCEPT !.logs = IF dead THEN @ ELSE <<rec>> \o @,
                  !.runs[r].asserts = Append(@, <<run.pc, ok>>),
                  !.runs[r].assertBy = Append(@, by)]

\* assertText: setTimeout(() => resolve(false), 800) fires first
AssertTimeoutMs == 800
assertTimeout(r) ==
    /\ r \in 1..Len(runs)
    /\ runs[r].at = "assert"
    /\ SetS(resume(assertSettled(HereS, r, FALSE, now,
                                  [kind |-> "timeout", outcome |-> "none"], crashed),
                    r, activeTabId, crashed))
    /\ UNCHANGED <<closed, tabs, activeTabId, nextId, crashed, alerts, effectLogs, now,
                   frame, inbox>>

----------------------------------------------------------------------------
(* The agent injected into the document the iframe holds *)

\* n more messages may be posted to the controller within the bound cap
Room(n, cap) == Len(logs) + Len(inbox) + n <= cap

\* announceReady(): one of the document's ready announcements
agentReady(cap) ==
    /\ frame.readyLeft > 0
    /\ Room(1, cap)
    /\ frame' = [frame EXCEPT !.readyLeft = @ - 1]
    /\ inbox' = Append(inbox, agentEvent("ready", NoPayload, activeTabId))
    /\ UNCHANGED <<closed, tabs, activeTabId, nextId, loads, crashed, logs, alerts, effectLogs,
                   now, cmds, runs>>

\* forms a fixture may submit: field names and values as the agent reports them
USERNAME == <<"#","u","s","e","r","n","a","m","e">>
PASSWORD == <<"#","p","a","s","s","w","o","r","d">>
LoginForm == ObjectPayload(<< <<USERNAME, <<"a","l","i","c","e">> >>,
                              <<PASSWORD, <<"s","e","c","r","e","t">> >> >>)
SearchForm == ObjectPayload(<< << <<"q">>, <<"a","g","e","n","t">> >> >>)
SubmitPayloads == {LoginForm, SearchForm}
Echo == ObjectPayload(<<>>)   \* the payload of an event no rule reads

\* the words the agent's payloads are made of
WHAT == <<"w","h","a","t">>
MESSAGE == <<"m","e","s","s","a","g","e">>
FIELDS == <<"f","i","e","l","d","s">>
SELECTOR == <<"s","e","l","e","c","t","o","r">>
INCLUDES == <<"i","n","c","l","u","d","e","s">>
OK == <<"o","k">>
COMMA == <<",">>
NotFound == SELECTOR \o <<" ","n","o","t"," ","f","o","u","n","d">>
Thrown == <<"S","y","n","t","a","x","E","r","r","o","r">>   \* String(e)

\* the characters of a command name, a selector, an expected text, a boolean
commandChars(command) ==
    CASE command = "fill"       -> <<"f","i","l","l">>
      [] command = "click"      -> CLICK
      [] command = "assertText" -> <<"a","s","s","e","r","t","T","e","x","t">>
      [] OTHER                  -> <<"?">>
selectorChars(sel) ==
    CASE sel = "#q"         -> <<"#","q">>
      [] sel = "#go"        -> <<"#","g","o">>
      [] sel = "#login-btn" -> <<"#","l","o","g","i","n","-","b","t","n">>
      [] sel = "#status"    -> <<"#","s","t","a","t","u","s">>
      [] sel = "#results"   -> <<"#","r","e","s","u","l","t","s">>
      [] OTHER              -> <<"#">>
textChars(text) ==
    CASE text = "Welcome, alice!" ->
           <<"W","e","l","c","o","m","e",","," ","a","l","i","c","e","!">>
      [] text = "Result A" -> <<"R","e","s","u","l","t"," ","A">>
      [] OTHER -> <<>>        \* args?.includes || ''
boolChars(b) == IF b THEN <<"t","r","u","e">> ELSE <<"f","a","l","s","e">>

\* Object.keys(args || {}) of a fill command
argKeys(c) ==
    IF c.selector = "#username,#password" THEN <<USERNAME, PASSWORD>>
    ELSE <<selectorChars(c.selector)>>

\* the forEach of the fill branch: the selectors whose element was found and
\* had its value set
touched(c, outcome) == IF outcome = "found" THEN argKeys(c) ELSE <<>>

\* { fields: Object.keys(args || {}) }; String(array) joins with commas
autofilledPayload(c) == ObjectPayload(<< <<FIELDS, join(argKeys(c), COMMA)>> >>)

\* { what, message }
errorPayload_noWhat(command, message) ==
    ObjectPayload(<< <<WHAT, <<"?">> >>, <<MESSAGE, message>> >>)
errorPayload(command, message) ==
    ObjectPayload(<< <<WHAT, commandChars(command)>>, <<MESSAGE, message>> >>)

\* document.querySelector(args?.selector) of the assertText branch: "found" is
\* an element whose text holds the expected text, "mismatch" an element with
\* no text, anything else no element
selected(c, outcome) ==
    CASE outcome = "found" ->
           [exists |-> TRUE, textContent |-> <<"<">> \o textChars(c.includes) \o <<">">>]
      [] outcome = "mismatch" -> [exists |-> TRUE, textContent |-> <<>>]
      [] OTHER -> [exists |-> FALSE, textContent |-> <<>>]

\* const ok = !!el && (el.textContent || '').includes(args?.includes || '')
assertOk_elementOnly(c, outcome) == selected(c, outcome).exists
assertOk(c, outcome) ==
    LET el == selected(c, outcome)
    IN  el.exists /\ includes(el.textContent, textChars(c.includes))

\* { selector, includes, ok }
assertResultPayload(c, ok) ==
    ObjectPayload(<< <<SELECTOR, selectorChars(c.selector)>>,
                     <<INCLUDES, textChars(c.includes)>>,
                     <<OK, boolChars(ok)>> >>)

\* the events the command handler sends for command c; the outcome of the DOM
\* operation depends on the fixture's markup: "missing" (selector matches
\* nothing), "found", for a click "submits" (the element submits form p), or
\* "throws" (the operation raises inside the handler's try block)
agentEvents_errorOnUnknown(c, outcome, p, ctx) ==
    <<agentEvent("command_received", Echo, ctx)>> \o
    CASE c.command = "ping" -> <<agentEvent("pong", Echo, ctx)>>
      [] c.command = "fill" ->
           IF outcome = "throws"
           THEN <<agentEvent("error", errorPayload("fill", Thrown), ctx)>>
           ELSE <<agentEvent("autofilled", autofilledPayload(c), ctx)>>
      [] c.command = "click" ->
           IF outcome = "throws"
           THEN <<agentEvent("error", errorPayload("click", Thrown), ctx)>>
           ELSE IF outcome = "missing"
           THEN <<agentEvent("error", errorPayload("click", NotFound), ctx)>>
           ELSE <<agentEvent("click", Echo, ctx)>>
                \o (IF outcome = "submits"
                    THEN <<agentEvent("form_submit", p, ctx)>> ELSE <<>>)
                \o <<agentEvent("clicked", Echo, ctx)>>
      [] c.command = "assertText" ->
           IF outcome = "throws"
           THEN <<agentEvent("error", errorPayload("assertText", Thrown), ctx)>>
           ELSE <<agentEvent("assert_result",
                             assertResultPayload(c, assertOk(c, outcome)), ctx)>>
      [] OTHER -> <<agentEvent("error", errorPayload(c.command, NotFound), ctx)>>

agentEvents(c, outcome, p, ctx) ==
    <<agentEvent("command_received", Echo, ctx)>> \o
    CASE c.command = "ping" -> <<agentEvent("pong", Echo, ctx)>>
      [] c.command = "fill" ->
           IF outcome = "throws"
           THEN <<agentEvent("error", errorPayload("fill", Thrown), ctx)>>
           ELSE <<agentEvent("autofilled", autofilledPayload(c), ctx)>>
      [] c.command = "click" ->
           IF outcome = "throws"
           THEN <<agentEvent("error", errorPayload("click", Thrown), ctx)>>
           ELSE IF outcome = "missing"
           THEN <<agentEvent("error", errorPayload("click", NotFound), ctx)>>
           ELSE <<agentEvent("click", Echo, ctx)>>
                \o (IF outcome = "submits"
                    THEN <<agentEvent("form_submit", p, ctx)>> ELSE <<>>)
                \o <<agentEvent("clicked", Echo, ctx)>>
      [] c.command = "assertText" ->
           IF outcome = "throws"
           THEN <<agentEvent("error", errorPayload("assertText", Thrown), ctx)>>
           ELSE <<agentEvent("assert_result",
                             assertResultPayload(c, assertOk(c, outcome)), ctx)>>
      [] OTHER -> <<>>

\* ev.ports[0].postMessage({ ok }): the reply on the port of an assertText
\* command, none when the handler threw before it.  For assertText "found"
\* is an element whose text includes the expected text, "missing" no element
\* or another text
portReply(rp, c, outcome) ==
    IF c.command = "assertText" /\ c.port /\ outcome # "throws"
    THEN [step |-> c.step, ok |-> assertOk(c, outcome), outcome |-> outcome]
    ELSE rp

\* the agent's message listener handles the oldest queued command
agentOnCommand(outcome, p, cap) ==
    /\ cmds # <<>>
    /\ outcome = "submits" => Head(cmds).command = "click"
    /\ outcome = "mismatch" => Head(cmds).command = "assertText"
    /\ cmds' = Tail(cmds)
    /\ LET c == Head(cmds) IN
       IF frame.doc = NoDoc
       THEN UNCHANGED <<inbox, runs, frame>>      \* about:blank: nobody listens
       ELSE /\ Room(Len(agentEvents(c, outcome, p, activeTabId)), cap)
            /\ inbox' = inbox \o agentEvents(c, outcome, p, activeTabId)
            /\ runs' = IF c.run \in 1..Len(runs)
                       THEN [runs EXCEPT ![c.run].reply = portReply(@, c, outcome)]
                       ELSE runs      \* a command no run posted
            /\ frame' = [frame EXCEPT !.submitted = @ \/ outcome = "submits"]
    /\ UNCHANGED <<closed, tabs, activeTabId, nextId, loads, crashed, logs, alerts, effectLogs,
                   now>>

\* ch.port1.onmessage: the {ok} of the agent arrives before the 800 ms timer
assertReply(r) ==
    /\ r \in 1..Len(runs)
    /\ runs[r].at = "assert"
    /\ runs[r].reply.step = runs[r].pc
    /\ SetS(resume(assertSettled(HereS, r, runs[r].reply.ok, now,
                                  [kind |-> "reply", outcome |-> runs[r].reply.outcome],
                                  crashed),
                    r, activeTabId, crashed))
    /\ UNCHANGED <<closed, tabs, activeTabId, nextId, crashed, alerts, effectLogs, now,
                   frame, inbox>>

\* a script of the document, or the user acting in it, posts message m
docPost(m, cap) ==
    /\ frame.doc # NoDoc
    /\ Room(1, cap)
    /\ inbox' = Append(inbox, [m EXCEPT !.ctx = activeTabId])
    /\ UNCHANGED <<closed, tabs, activeTabId, nextId, loads, crashed, logs, alerts, effectLogs,
                   now, frame, cmds, runs>>

----------------------------------------------------------------------------
(* The controller's message intake *)

\* onMsg of the effect: what it does to logs and alerts for message data m,
\* with the activeTabId (a) and logs (eff) of the render the effect last ran in
\* if (!data || !data.type) return
noDiscriminator(m) == ~m.data \/ m.type = ""

onMsgLogs_twice(lg, m, a, t) ==
    IF ~noDiscriminator(m) /\ m.type = "agentic:event"
    THEN <<LogItem(t, a, logMsg(m.event, m.payload)),
           LogItem(t, a, logMsg(m.event, m.payload))>> \o lg
    ELSE lg
onMsgLogs_anyType(lg, m, a, t) ==
    IF ~noDiscriminator(m)
    THEN <<LogItem(t, a, logMsg(m.event, m.payload))>> \o lg
    ELSE lg
onMsgLogs(lg, m, a, t) ==
    IF ~noDiscriminator(m) /\ m.type = "agentic:event"
    THEN <<LogItem(t, a, logMsg(m.event, m.payload))>> \o lg
    ELSE lg
onMsgAlerts(as, m, a, eff, t) ==
    IF ~noDiscriminator(m) /\ m.type = "agentic:event"
    THEN raise(as, runSecurityChecks(m.event, m.payload, a, eff, t))
    ELSE as

\* e.data?.type === 'agentic:event' && e.data.event === 'ready'
isReady(m) == m.data /\ m.type = "agentic:event" /\ m.event = "ready"

\* the window dispatches the oldest queued message to its listeners: onMsg of
\* the effect (while App is mounted) and onMsg of every pending waitForIframeReady
onMsg ==
    /\ inbox # <<>>
    /\ inbox' = Tail(inbox)
    /\ LET m == Head(inbox)
           lg == IF crashed THEN logs ELSE onMsgLogs(logs, m, activeTabId, now)
           S  == [HereS EXCEPT !.logs = lg]
       IN  /\ alerts' = IF crashed THEN alerts
                        ELSE onMsgAlerts(alerts, m, activeTabId, effectLogs, now)
           /\ SetS(IF isReady(m)
                   THEN finishWaits(S, 1, activeTabId, crashed,
                                    [kind |-> "ready", ctx |-> m.ctx, old |-> m.old])
                   ELSE S)
    /\ UNCHANGED <<closed, tabs, activeTabId, nextId, crashed, effectLogs, now, frame>>

\* time passes
Tick ==
    /\ now < MaxTicks * TickMs
    /\ now' = now + TickMs
    /\ UNCHANGED <<closed, tabs, activeTabId, nextId, loads, crashed, logs, alerts, effectLogs,
                   frame, inbox, cmds, runs>>

----------------------------------------------------------------------------
(* Specifications *)
Outcomes == {"missing", "found", "submits", "throws"}
\* the same, telling an element without the expected text from no element
DomOutcomes == Outcomes \cup {"mismatch"}

\* what a run, the agent and the intake do once a run was started
RunSteps(cap, forms) ==
    \/ \E r \in 1..Len(runs) : navigateLoaded(r)
    \/ \E r \in 1..Len(runs) : navigateFailed(r)
    \/ \E r \in 1..Len(runs) : readyTimeout(r)
    \/ iframeLoad
    \/ \E r \in 1..Len(runs) : delayElapsed(r)
    \/ \E r \in 1..Len(runs) : assertTimeout(r)
    \/ \E r \in 1..Len(runs) : assertReply(r)
    \/ agentReady(cap)
    \/ \E o \in Outcomes, p \in forms : agentOnCommand(o, p, cap)
    \/ onMsg

\* one workflow run, while the user opens a second tab and switches between tabs
NextRun ==
    \/ Len(tabs) = 1 /\ openTab("search")
    \/ \E id \in TabIds(tabs) : setActiveTabId(id)
    \/ \E i \in 1..Len(loads) : loadFixtureDone(i)
    \/ runs = <<>> /\ runWorkflow(shortWorkflow)
    \/ RunSteps(MaxRunLogs, {SearchForm})

SpecRun == Init /\ [][NextRun]_vars

\* a run of assertText steps only, started at any moment while the user opens
\* a second tab and switches between tabs
assertWorkflow == <<
    Step("assertText", "", "#status", "Welcome, alice!"),
    Step("assertText", "", "#results", "Result A") >>

NextAssert ==
    \/ Len(tabs) = 1 /\ openTab("search")
    \/ \E id \in TabIds(tabs) : setActiveTabId(id)
    \/ \E i \in 1..Len(loads) : loadFixtureDone(i)
    \/ runs = <<>> /\ runWorkflow(assertWorkflow)
    \/ iframeLoad
    \/ \E r \in 1..Len(runs) : assertTimeout(r)
    \/ \E r \in 1..Len(runs) : assertReply(r)
    \/ agentReady(MaxAssertLogs)
    \/ \E o \in DomOutcomes : agentOnCommand(o, SearchForm, MaxAssertLogs)
    \/ onMsg

SpecAssert == Init /\ [][NextAssert]_vars

\* the Run Sample button pressed again while a run is in flight, one tab
NextTwoRuns ==
    \/ \E i \in 1..Len(loads) : loadFixtureDone(i)
    \/ runWorkflow(shortWorkflow)
    \/ RunSteps(MaxRunLogs, {SearchForm})

SpecTwoRuns == Init /\ [][NextTwoRuns]_vars

\* one run of the sample workflow on the initial tab, nothing else going on
NextSeq ==
    \/ \E i \in 1..Len(loads) : loadFixtureDone(i)
    \/ runs = <<>> /\ runWorkflow(sampleWorkflow)
    \/ RunSteps(MaxSeqLogs, SubmitPayloads)

SpecSeq == Init /\ [][NextSeq]_vars

\* The security rules as a function of one message: the document of the loaded
\* initial tab has posted message m, and the intake handles it
KeyPool == {USERNAME, PASSWORD, <<"P","A","S","S">>, <<"p","a","s">>,
            <<"c","o","m","P","a","S","s">>, <<"q">>}
ValuePool == {SCRIPT \o <<">">>, <<"<","s","c","r">>, <<"i","p","t">>,
              <<"a","l","i","c","e">>, <<"<","S","C","R","I","P","T">>, <<>>}
FieldLists ==
    {fs \in UNION {[1..n -> KeyPool \X ValuePool] : n \in 0..MaxFields} :
        \A i, j \in 1..Len(fs) : i # j => fs[i][1] # fs[j][1]}
ObjectPayloads == {ObjectPayload(fs) : fs \in FieldLists}
Hostile == ObjectPayload(<< <<PASSWORD, SCRIPT>> >>)
\* messages that are no agentic:event: no data at all, data without a type,
\* a command that found its way to the controller, a type nobody knows
Malformed ==
    {[agentEvent(e, Hostile, 1) EXCEPT !.data = dt[1], !.type = dt[2]] :
        e \in {"form_submit", "click", "ready"},
        dt \in {<<FALSE, "">>, <<TRUE, "">>, <<TRUE, "agentic:command">>, <<TRUE, "other">>}}
SecMessages ==
    {agentEvent("form_submit", p, 1) : p \in ObjectPayloads \cup {NoPayload, StringPayload}}
    \cup {agentEvent(e, p, 1) :
            e \in {"click", "clicked", "ready", "autofilled", "error"},
            p \in {NoPayload, Hostile}}
    \cup Malformed

InitSec ==
    /\ tabs = loadedTabs(<<[id |-> 1, fixture |-> "login", title |-> "login",
                           srcDoc |-> NoDoc]>>,
                         [tab |-> 1, key |-> "login"])
    /\ activeTabId = 1
    /\ nextId = 2
    /\ loads = <<[tab |-> 1, key |-> "login", status |-> "done", run |-> 0]>>
    /\ crashed = FALSE
    /\ logs = <<>>
    /\ alerts = <<>>
    /\ effectLogs = <<>>
    /\ now = 0
    /\ frame = frameAfter(BlankFrame, tabs, activeTabId)
    /\ inbox \in {<<m>> : m \in SecMessages}
    /\ cmds = <<>>
    /\ runs = <<>>
    /\ closed = <<>>

NextSec == onMsg

SpecSec == InitSec /\ [][NextSec]_vars

\* The agent's command handler as a function of the commands it is given:
\* scripts with a reference to the window of the loaded initial tab have posted
\* two commands, of known and unknown names, and the agent handles them
CommandNames == {"ping", "fill", "click", "assertText", "bogus", ""}
CommandPool ==
    {[Command(n, Step(n, "", "#go", "Result A"), 0, 1) EXCEPT !.port = FALSE] :
        n \in CommandNames}
InitAgent ==
    /\ tabs = loadedTabs(<<[id |-> 1, fixture |-> "search", title |-> "search",
                           srcDoc |-> NoDoc]>>,
                         [tab |-> 1, key |-> "search"])
    /\ activeTabId = 1
    /\ nextId = 2
    /\ loads = <<[tab |-> 1, key |-> "search", status |-> "done", run |-> 0]>>
    /\ crashed = FALSE
    /\ logs = <<>>
    /\ alerts = <<>>
    /\ effectLogs = <<>>
    /\ now = 0
    /\ frame = frameAfter(BlankFrame, tabs, activeTabId)
    /\ inbox = <<>>
    /\ cmds \in {<<c1, c2>> : c1 \in CommandPool, c2 \in CommandPool}
    /\ runs = <<>>
    /\ closed = <<>>

NextAgent ==
    \/ \E o \in DomOutcomes : agentOnCommand(o, SearchForm, MaxSeqLogs)
    \/ agentReady(MaxSeqLogs)
    \/ iframeLoad
    \/ onMsg

SpecAgent == InitAgent /\ [][NextAgent]_vars

\* Conformant fixtures (their markup is served from outside this code): the
\* login document has the fields #username and #password, a button
\* #login-btn that submits them, and #status, which greets the user once the
\* form was submitted; the search document has #q, #go and #results likewise.
fixtureOf(doc) ==
    IF doc = injectAgent(fetchText("login")) THEN "login"
    ELSE IF doc = injectAgent(fetchText("search")) THEN "search"
    ELSE "other"
Conformant == [
    login  |-> [fields |-> "#username,#password", button |-> "#login-btn",
                output |-> "#status", text |-> "Welcome, alice!", form |-> LoginForm],
    search |-> [fields |-> "#q", button |-> "#go",
                output |-> "#results", text |-> "Result A", form |-> SearchForm] ]
\* what document.querySelector and the fixture's scripts make of command c in
\* the document the iframe holds
conformantOutcome(c, fr) ==
    IF fixtureOf(fr.doc) = "other" THEN "missing"
    ELSE LET fx == Conformant[fixtureOf(fr.doc)] IN
         CASE c.command = "fill" ->
                IF c.selector = fx.fields THEN "found" ELSE "missing"
           [] c.command = "click" ->
                IF c.selector = fx.button THEN "submits" ELSE "missing"
           [] c.command = "assertText" ->
                IF c.selector # fx.output THEN "missing"
                ELSE IF fr.submitted /\ c.includes = fx.text THEN "found"
                ELSE "mismatch"
           [] OTHER -> "missing"
conformantForm(fr) ==
    IF fixtureOf(fr.doc) = "search" THEN SearchForm ELSE LoginForm

\* the agent in a conformant fixture handles the oldest queued command
fixtureOnCommand ==
    /\ cmds # <<>>
    /\ agentOnCommand(conformantOutcome(Head(cmds), frame), conformantForm(frame), MaxSampleLogs)

\* Messages take far less time than the timers: a timer fires only when no
\* command and no event is in flight
Quiet == inbox = <<>> /\ cmds = <<>>
\* and only when the document has nothing left to announce: its last ready
\* is on a 200 ms timer set before any timer of a later step
DocQuiet == frame.readyLeft = 0 /\ ~frame.loadPending
\* the 800 ms timer fires only when no reply is on its way: the command was
\* dropped or answered with an exception
Unanswered(r) == r \in 1..Len(runs) /\ runs[r].reply.step # runs[r].pc

\* Run Sample against conformant fixtures, one tab, no other action of the
\* user: fetches succeed and the agent answers within the timers
NextSample ==
    \/ \E i \in 1..Len(loads) : loadFixtureDone(i)
    \/ runs = <<>> /\ runWorkflow(sampleWorkflow)
    \/ \E r \in 1..Len(runs) : navigateLoaded(r)
    \/ \E r \in 1..Len(runs) : Quiet /\ DocQuiet /\ readyTimeout(r)
    \/ iframeLoad
    \/ \E r \in 1..Len(runs) : Quiet /\ DocQuiet /\ delayElapsed(r)
    \/ \E r \in 1..Len(runs) : Quiet /\ DocQuiet /\ Unanswered(r) /\ assertTimeout(r)
    \/ \E r \in 1..Len(runs) : assertReply(r)
    \/ agentReady(MaxSampleLogs)
    \/ fixtureOnCommand
    \/ onMsg

SpecSample == Init /\ [][NextSample]_vars


\* a run of a navigate and an assertText step while the user opens a second
\* tab and closes tabs, the run's own among them
closeWorkflow == <<
    Step("navigate", "search", "", ""),
    Step("assertText", "", "#results", "Result A") >>

NextClose ==
    \/ closed = <<>> /\ Len(tabs) = 1 /\ openTab("search")
    \/ \E id \in TabIds(tabs) : runs # <<>> /\ closeTab(id)
    \/ \E i \in 1..Len(loads) : loadFixtureDone(i)
    \/ runs = <<>> /\ runWorkflow(closeWorkflow)
    \/ \E r \in 1..Len(runs) : navigateLoaded(r)
    \/ \E r \in 1..Len(runs) : readyTimeout(r)
    \/ iframeLoad
    \/ \E r \in 1..Len(runs) : assertTimeout(r)
    \/ \E r \in 1..Len(runs) : assertReply(r)
    \/ agentReady(MaxAssertLogs)
    \/ \E o \in DomOutcomes : agentOnCommand(o, SearchForm, MaxAssertLogs)
    \/ onMsg

SpecClose == Init /\ [][NextClose]_vars


\* the close button called for any id, also one that was closed or never
\* handed out, while tabs are opened and one form is submitted in the document
NextCloses ==
    \/ openTab("search")
    \/ \E id \in 1..MaxTabs : Len(closed) < MaxCloses /\ closeTab(id)
    \/ \E i \in 1..Len(loads) : loadFixtureDone(i)
    \/ logs = <<>> /\ inbox = <<>>
         /\ docPost(agentEvent("form_submit", LoginForm, activeTabId), MaxRunLogs)
    \/ onMsg

SpecCloses == Init /\ [][NextCloses]_vars


\* runs of navigate steps only, the button pressed again while a run waits, so
\* that several readiness waits are pending at once
waitWorkflow == <<
    Step("navigate", "search", "", ""),
    Step("navigate", "login", "", "") >>

NextWait ==
    \/ \E i \in 1..Len(loads) : loadFixtureDone(i)
    \/ runWorkflow(waitWorkflow)
    \/ \E r \in 1..Len(runs) : navigateLoaded(r)
    \/ \E r \in 1..Len(runs) : readyTimeout(r)
    \/ iframeLoad
    \/ agentReady(MaxRunLogs)
    \/ onMsg

SpecWait == Init /\ [][NextWait]_vars

\* The second definitions in App.tsx (lines 379-645).  Its waitForIframeReady
\* registers a message listener only: no load listener and no timer, so
\* nothing but a ready message ends the wait (the steps below include neither
\* readyTimeout nor iframeLoad, and nothing else reads onLoad and tid).  Its agent announces ready once
\* per document, sends no command_received and knows no ping.
announceOnce ==
    /\ frame.readyLeft > 0
    /\ frame' = [frame EXCEPT !.readyLeft = 0]
    /\ inbox' = Append(inbox, agentEvent("ready", NoPayload, activeTabId))
    /\ UNCHANGED <<closed, tabs, activeTabId, nextId, loads, crashed, logs, alerts, effectLogs,
                   now, cmds, runs>>

agentEventsSecond(c, outcome, p, ctx) ==
    IF c.command = "ping" THEN <<>> ELSE Tail(agentEvents(c, outcome, p, ctx))

\* the message listener of that agent handles the oldest queued command, in
\* a conformant fixture
agentOnCommandSecond ==
    /\ cmds # <<>>
    /\ cmds' = Tail(cmds)
    /\ LET c == Head(cmds)
           outcome == conformantOutcome(c, frame)
       IN  IF frame.doc = NoDoc
           THEN UNCHANGED <<inbox, runs, frame>>
           ELSE /\ inbox' = inbox \o agentEventsSecond(c, outcome, conformantForm(frame),
                                                      activeTabId)
                /\ runs' = IF c.run \in 1..Len(runs)
                           THEN [runs EXCEPT ![c.run].reply = portReply(@, c, outcome)]
                           ELSE runs
                /\ frame' = [frame EXCEPT !.submitted = @ \/ outcome = "submits"]
    /\ UNCHANGED <<closed, tabs, activeTabId, nextId, loads, crashed, logs, alerts, effectLogs,
                   now>>

\* what goes on by itself once Run Sample was clicked: fetches settle, timers
\* fire, scripts of the document run and messages are delivered
SecondSteps ==
    \/ \E i \in 1..Len(loads) : loadFixtureDone(i)
    \/ \E r \in 1..Len(runs) : navigateLoaded(r)
    \/ \E r \in 1..Len(runs) : delayElapsed(r)
    \/ \E r \in 1..Len(runs) : assertTimeout(r)
    \/ \E r \in 1..Len(runs) : assertReply(r)
    \/ announceOnce
    \/ agentOnCommandSecond
    \/ onMsg

NextSecond ==
    \/ runs = <<>> /\ runWorkflow(sampleWorkflow)
    \/ SecondSteps

\* every fetch settles, every timer fires, every script runs and every
\* message is delivered; only the click on Run Sample may never come
SpecSecond ==
    /\ Init
    /\ [][NextSecond]_vars
    /\ \A i \in 1..MaxLoads + MaxRuns : WF_vars(loadFixtureDone(i))
    /\ \A r \in 1..MaxRuns :
         /\ WF_vars(navigateLoaded(r))
         /\ WF_vars(delayElapsed(r))
         /\ WF_vars(assertTimeout(r))
         /\ WF_vars(assertReply(r))
    /\ WF_vars(announceOnce)
    /\ WF_vars(agentOnCommandSecond)
    /\ WF_vars(onMsg)

\* both logs at work: a run clicks a button that may submit a form and asserts
\* a text, while the user opens a second tab and closes tabs
logWorkflow == <<
    Step("click", "", "#login-btn", ""),
    Step("assertText", "", "#status", "Welcome, alice!") >>

NextLog ==
    \/ closed = <<>> /\ Len(tabs) = 1 /\ openTab("search")
    \/ \E id \in TabIds(tabs) : closeTab(id)
    \/ \E i \in 1..Len(loads) : loadFixtureDone(i)
    \/ runs = <<>> /\ runWorkflow(logWorkflow)
    \/ \E r \in 1..Len(runs) : delayElapsed(r)
    \/ \E r \in 1..Len(runs) : assertTimeout(r)
    \/ \E r \in 1..Len(runs) : assertReply(r)
    \/ \E o \in Outcomes, p \in {LoginForm, Hostile} : agentOnCommand(o, p, MaxLogs)
    \/ onMsg

SpecLog == Init /\ [][NextLog]_vars

\* The intake over time: the document posts click and other events, the clock
\* advances, and the user opens and switches tabs
MonMessages == {agentEvent(e, NoPayload, 1) : e \in {"click", "ready"}}

NextMon ==
    \/ \E i \in 1..Len(loads) : loadFixtureDone(i)
    \/ Len(tabs) = 1 /\ openTab("login")
    \/ \E id \in TabIds(tabs) : setActiveTabId(id)
    \/ \E m \in MonMessages : docPost(m, MaxLogs)
    \/ onMsg
    \/ Tick

SpecMon == Init /\ [][NextMon]_vars

----------------------------------------------------------------------------
(* Claims *)

\* C1: after any sequence of openTab / closeTab calls the active id is either
\* undefined, and then the tab set is empty, or the id of a tab in the set.
C1_ActiveIsLiveOrNone ==
    \/ activeTabId = NoId /\ tabs = <<>>
    \/ activeTabId \in TabIds(tabs)

\* C2: when every load requested for a tab has completed, the tab shows the
\* instrumented content and the key of the load requested last, whatever the
\* order in which the fetches completed.
LoadsOf(id) == {i \in 1..Len(loads) : loads[i].tab = id}
LastLoadOf(id) == CHOOSE i \in LoadsOf(id) : \A j \in LoadsOf(id) : j <= i
C2_LastRequestedWins ==
    \A n \in 1..Len(tabs) :
        LET id == tabs[n].id IN
        (/\ ~crashed
         /\ Cardinality(LoadsOf(id)) >= 2
         /\ \A i \in LoadsOf(id) : loads[i].status = "done")
        => /\ tabs[n].fixture = loads[LastLoadOf(id)].key
           /\ tabs[n].srcDoc = injectAgent(fetchText(loads[LastLoadOf(id)].key))

\* C3: every command a run posts goes to the agent of the tab the run captured
\* when it started, and every load a run starts reloads that tab, also after
\* the user made another tab the active one.
C3_RunKeepsItsTarget ==
    /\ \A i \in 1..Len(cmds) : cmds[i].ctx = runs[cmds[i].run].tab
    /\ \A i \in 1..Len(loads) : loads[i].run # 0 => loads[i].tab = runs[loads[i].run].tab

\* C4: no two runs are in flight against the same tab at the same time.
Running(r) == runs[r].at \notin {"done", "aborted"}
C4_OneRunPerContext ==
    \A r1, r2 \in 1..Len(runs) :
        (r1 # r2 /\ Running(r1) /\ Running(r2)) => runs[r1].tab # runs[r2].tab

\* C5: the number of ClickStorm alerts equals the number of logged click
\* events that have at least ClickStormCount click events, themselves
\* included, in the ClickWindowMs before them.
IsClickEntry(i) == logs[i].msg.text = CLICK \o SPACE
ClicksInWindowOf(i) ==
    Cardinality({j \in i..Len(logs) :
        IsClickEntry(j) /\ logs[i].ts - logs[j].ts < ClickWindowMs})
AlertsOfKind(kind) == {k \in 1..Len(alerts) : alerts[k].kind = kind}
C5_ClickStormPerQualifyingClick ==
    Cardinality(AlertsOfKind("ClickStorm"))
        = Cardinality({i \in 1..Len(logs) :
              IsClickEntry(i) /\ ClicksInWindowOf(i) >= ClickStormCount})

\* the message the intake of SpecSec has handled, once it has
Handled == inbox = <<>> /\ Len(logs) = 1
HandledSubmit ==
    /\ Handled
    /\ logs[1].msg.text = chars("form_submit") \o SPACE
    /\ logs[1].msg.json.kind = "object"
NamesPassword(k) ==
    \E i \in 1..(Len(k) - 3) :
        /\ k[i] \in {"p", "P"}
        /\ k[i + 1] \in {"a", "A"}
        /\ k[i + 2] \in {"s", "S"}
        /\ k[i + 3] \in {"s", "S"}
HoldsScript(v) ==
    \E i \in 1..(Len(v) - 6) :
        /\ v[i] = "<"     /\ v[i + 1] = "s" /\ v[i + 2] = "c" /\ v[i + 3] = "r"
        /\ v[i + 4] = "i" /\ v[i + 5] = "p" /\ v[i + 6] = "t"
SomeKeyNamesPassword(fs) == \E i \in 1..Len(fs) : NamesPassword(fs[i][1])
SomeValueHoldsScript(fs) == \E i \in 1..Len(fs) : HoldsScript(fs[i][2])

\* C6: a form_submit with a field mapping raises SensitiveSubmit exactly when
\* some field name contains "pass" in any letter case.
C6_SensitiveSubmitIffPassKey ==
    HandledSubmit =>
        (AlertsOfKind("SensitiveSubmit") # {}
            <=> SomeKeyNamesPassword(logs[1].msg.json.fields))
C6_Witness ==
    /\ HandledSubmit
    /\ keys(logs[1].msg.json) = <<USERNAME, PASSWORD>>
    /\ AlertsOfKind("SensitiveSubmit") # {}

\* C7 as stated: a form_submit raises PotentialXSS exactly when the field
\* values written one after the other contain "<script".
RECURSIVE Concat(_)
Concat(ss) == IF ss = <<>> THEN <<>> ELSE Head(ss) \o Concat(Tail(ss))
C7_XssIffConcatenationHoldsScript ==
    HandledSubmit =>
        (AlertsOfKind("PotentialXSS") # {}
            <=> HoldsScript(Concat(values(logs[1].msg.json))))

\* C7 as amended: a form_submit raises PotentialXSS exactly when the field
\* values joined by single blanks contain "<script", that is when one single
\* field value contains it.
C7_XssIffSomeValueHoldsScript ==
    HandledSubmit =>
        (AlertsOfKind("PotentialXSS") # {}
            <=> SomeValueHoldsScript(logs[1].msg.json.fields))
C7_Witness ==
    /\ HandledSubmit
    /\ Len(logs[1].msg.json.fields) = 2
    /\ ~SomeKeyNamesPassword(logs[1].msg.json.fields)
    /\ HoldsScript(logs[1].msg.json.fields[2][2])
    /\ AlertsOfKind("PotentialXSS") # {}

\* C8: the rules are evaluated independently: a form_submit with a password
\* field name and a "<script" value raises both alerts, one with neither
\* raises none, and an event other than form_submit and click raises none.
AlertKinds == {alerts[k].kind : k \in 1..Len(alerts)}
C8_RulesIndependent ==
    Handled =>
        /\ HandledSubmit =>
             LET fs == logs[1].msg.json.fields IN
             /\ (SomeKeyNamesPassword(fs) /\ SomeValueHoldsScript(fs))
                    => (AlertKinds = {"SensitiveSubmit", "PotentialXSS"}
                        /\ Len(alerts) = 2)
             /\ (~SomeKeyNamesPassword(fs) /\ ~SomeValueHoldsScript(fs))
                    => alerts = <<>>
        /\ (/\ logs[1].msg.text # chars("form_submit") \o SPACE
            /\ logs[1].msg.text # CLICK \o SPACE)
               => alerts = <<>>
C8_Witness ==
    /\ HandledSubmit
    /\ Len(alerts) = 2
    /\ alerts[1].kind = "PotentialXSS"
    /\ alerts[2].kind = "SensitiveSubmit"

\* C9: a run begins its steps in list order, one at a time, and a failed
\* assertText does not stop it: the step after it is begun, the run ends only
\* after its last step (or on a rejected fetch), and the failure shows as one
\* log record.
AssertRecords(ok) ==
    {i \in 1..Len(logs) : logs[i].msg.text = chars(assertRecord(ok, <<>>))}
FailedAsserts ==
    {rk \in (1..Len(runs)) \X (1..Len(sampleWorkflow)) :
        /\ rk[2] <= Len(runs[rk[1]].asserts)
        /\ ~runs[rk[1]].asserts[rk[2]][2]}
C9_StepsInOrderAssertDoesNotStop ==
    /\ Cardinality(AssertRecords(FALSE)) = Cardinality(FailedAsserts)
    /\ \A r \in 1..Len(runs) :
        LET run == runs[r] IN
        /\ run.started = [i \in 1..Len(run.started) |-> i]
        /\ Len(run.started) = IF run.pc > Len(run.steps) THEN Len(run.steps) ELSE run.pc
        /\ run.at = "done" <=> run.pc > Len(run.steps)
        /\ run.at = "aborted" => run.steps[run.pc].type = "navigate"
        /\ \A k \in 1..Len(run.asserts) :
              /\ run.steps[run.asserts[k][1]].type = "assertText"
              /\ run.pc > run.asserts[k][1]
C9_Witness ==
    /\ Len(runs) = 1
    /\ runs[1].at = "done"
    /\ runs[1].asserts = << <<4, FALSE>>, <<8, TRUE>> >>
    /\ runs[1].started = <<1, 2, 3, 4, 5, 6, 7, 8>>

\* C10: a wait for readiness of a navigate step ends by the timeout, by the load
\* signal of the run's own tab, or by a ready event of the document just loaded
\* into the run's own tab, never by a ready event of another tab's document or
\* of the document loaded before.
C10_ReadyOnlyFromTarget ==
    \A r \in 1..Len(runs) :
        LET c == runs[r].readyBy IN
        /\ c.kind = "ready" => (c.ctx = runs[r].tab /\ ~c.old)
        /\ c.kind = "load" => c.ctx = runs[r].tab

\* C11: an assertText step settles with a boolean and never ends the run by an
\* exception: the boolean is false when the timer settled it (no reply: no
\* agent got the command, or its handler threw) and when the agent replied for
\* a selector or text it did not find, true only on a reply for one it found;
\* and each settled assertText step has exactly one pass/fail record in the
\* log, tagged with the id of the tab the run captured.
AssertLogs(tabId, ok) ==
    {i \in 1..Len(logs) :
        /\ logs[i].msg.text = chars(IF ok THEN "assert OK" ELSE "assert FAILED")
        /\ logs[i].tabId = tabId}
AssertsSettled(tabId, ok) ==
    {rk \in (1..Len(runs)) \X (1..Len(sampleWorkflow)) :
        /\ runs[rk[1]].tab = tabId
        /\ rk[2] <= Len(runs[rk[1]].asserts)
        /\ runs[rk[1]].asserts[rk[2]][2] = ok}
C11_AssertTextBooleanOneRecord ==
    /\ \A r \in 1..Len(runs) :
         LET run == runs[r] IN
         /\ Len(run.assertBy) = Len(run.asserts)
         /\ run.at = "aborted" => run.steps[run.pc].type # "assertText"
         /\ \A k \in 1..Len(run.asserts) :
              LET ok == run.asserts[k][2]
                  by == run.assertBy[k]
              IN  /\ ok \in BOOLEAN
                  /\ by.kind = "timeout" => ~ok
                  /\ by.kind = "reply" => (ok <=> by.outcome = "found")
                  /\ \A j \in 1..(k - 1) : run.asserts[j][1] < run.asserts[k][1]
    /\ \A t \in 0..MaxTabs, ok \in BOOLEAN :
         Cardinality(AssertLogs(t, ok)) = Cardinality(AssertsSettled(t, ok))
C11_Witness ==
    /\ Len(runs) = 1
    /\ runs[1].tab # activeTabId
    /\ runs[1].asserts = << <<1, FALSE>>, <<2, TRUE>> >>
    /\ runs[1].assertBy[1].kind = "timeout"
    /\ AssertLogs(runs[1].tab, FALSE) # {}

\* C12: closeTab of the active tab while another tab remains removes that tab,
\* keeps the others in their order, and makes the first of them the active one.
Remaining(c) == SelectSeq(c.before, LAMBDA t : t.id # c.id)
ClosedActive(c) == c.id = c.active /\ Len(c.before) > 1
C12_CloseActivePicksFirstRemaining ==
    \A k \in 1..Len(closed) :
        ClosedActive(closed[k]) =>
            /\ closed[k].after = Remaining(closed[k])
            /\ closed[k].activeAfter = Remaining(closed[k])[1].id
C12_Witness ==
    \E k \in 1..Len(closed) :
        /\ ClosedActive(closed[k])
        /\ Len(closed[k].before) = 3
        /\ closed[k].before[1].id # closed[k].id
        /\ closed[k].activeAfter = closed[k].before[1].id

\* C13: closeTab of the only tab leaves an empty tab set with no active tab,
\* and the controller goes on working (its render does not throw).
C13_CloseLastLeavesNoneActive ==
    \A k \in 1..Len(closed) :
        Len(closed[k].before) = 1 =>
            /\ closed[k].after = <<>>
            /\ closed[k].activeAfter = NoId
            /\ ~closed[k].threw

Instrumented(doc, raw) ==
    \E p \in 1..Len(doc) :
        /\ doc[p] = AGENT
        /\ SubSeq(doc, 1, p - 1) \o SubSeq(doc, p + 1, Len(doc)) = raw
LoadWrites(i, raw) ==
    /\ activeTabId' = activeTabId
    /\ Len(tabs') = Len(tabs)
    /\ \A n \in 1..Len(tabs) :
         IF tabs[n].id = loads[i].tab /\ ~crashed
         THEN /\ tabs'[n].id = tabs[n].id
              /\ tabs'[n].fixture = loads[i].key
              /\ tabs'[n].title = loads[i].key
              /\ tabs'[n].srcDoc # raw
              /\ Instrumented(tabs'[n].srcDoc, raw)
         ELSE tabs'[n] = tabs[n]
C15_LoadChangesOnlyItsTab ==
    [][\A i \in 1..Len(loads) :
          /\ loadFixtureDone(i) => LoadWrites(i, fetchText(loads[i].key))
          /\ loadFixtureHttpError(i) => LoadWrites(i, ErrorPage)]_vars
C15_Witness ==
    /\ ~crashed
    /\ Len(tabs) = 2
    /\ activeTabId = tabs[2].id
    /\ tabs[2].srcDoc = NoDoc
    /\ tabs[1].id = 1
    /\ tabs[1].fixture = "form"
    /\ Instrumented(tabs[1].srcDoc, fetchText("form"))

\* C16: a load whose fetch fails, by a rejected fetch or by an answer with an
\* error status, ends with an error for its caller and leaves every tab, the
\* log and the alerts as they were.
C16_FailedLoadKeepsContent ==
    [][\A i \in 1..Len(loads) :
          (loadFixtureFail(i) \/ loadFixtureHttpError(i)) =>
              /\ loads'[i].status = "failed"
              /\ tabs' = tabs
              /\ logs' = logs
              /\ alerts' = alerts]_vars

\* C17: the intake of one agentic:event message puts exactly one record of
\* that event at the head of the log, leaves the older records as they were,
\* and evaluates the rules once on that event: the alerts it adds are those the
\* event calls for, each once, stamped like the record; the whole is one step.
NewAlerts == SubSeq(alerts', 1, Len(alerts') - Len(alerts))
NewAlertKinds == {NewAlerts[k].kind : k \in 1..Len(NewAlerts)}
DueKinds(m) ==
    IF m.event = "form_submit" /\ m.payload.kind = "object"
    THEN (IF SomeKeyNamesPassword(m.payload.fields) THEN {"SensitiveSubmit"} ELSE {})
         \cup (IF SomeValueHoldsScript(m.payload.fields) THEN {"PotentialXSS"} ELSE {})
    ELSE {}
C17_OneRecordOneEvaluationPerEvent ==
    [][(onMsg /\ Head(inbox).data /\ Head(inbox).type = "agentic:event") =>
          LET m == Head(inbox) IN
          /\ Len(logs') = Len(logs) + 1
          /\ Tail(logs') = logs
          /\ logs'[1].ts = now
          /\ logs'[1].msg.text = chars(m.event) \o SPACE
          /\ logs'[1].msg.json = m.payload
          /\ Len(alerts') >= Len(alerts)
          /\ SubSeq(alerts', Len(alerts') - Len(alerts) + 1, Len(alerts')) = alerts
          /\ Len(NewAlerts) = Cardinality(NewAlertKinds)
          /\ \A k \in 1..Len(NewAlerts) :
                NewAlerts[k].ts = logs'[1].ts /\ NewAlerts[k].tabId = logs'[1].tabId
          /\ IF m.event = "click"
             THEN NewAlertKinds \subseteq {"ClickStorm"}
             ELSE NewAlertKinds = DueKinds(m)]_vars
C17_Witness ==
    /\ Len(logs) >= 2
    /\ logs[1].msg.text = chars("form_submit") \o SPACE
    /\ logs[1].msg.json = LoginForm
    /\ Len(alerts) = 1
    /\ alerts[1].kind = "SensitiveSubmit"
    /\ alerts[1].ts = logs[1].ts

\* C18: the record of an event, and every alert raised for it, carries the id
\* of the tab whose document emitted the event, also when another tab has
\* become the active one before the event is handled.
C18_RecordsCarrySourceContext ==
    [][(onMsg /\ Head(inbox).data /\ Head(inbox).type = "agentic:event") =>
          /\ logs'[1].tabId = Head(inbox).ctx
          /\ \A k \in 1..Len(NewAlerts) : NewAlerts[k].tabId = Head(inbox).ctx]_vars

\* C19: a message without data, without a type, or with a type other than
\* agentic:event is dropped: handling it changes neither the log, the alerts,
\* the tab set nor the active id, and raises nothing.
IsMalformed(m) == ~m.data \/ m.type \notin {"agentic:event"}
C19_MalformedDropped ==
    [][(onMsg /\ IsMalformed(Head(inbox))) =>
          /\ logs' = logs
          /\ alerts' = alerts
          /\ tabs' = tabs
          /\ activeTabId' = activeTabId
          /\ crashed' = crashed]_vars
C19_Witness ==
    /\ inbox = <<>>
    /\ logs = <<>>
    /\ alerts = <<>>
    /\ ~crashed
    /\ TabIds(tabs) = {activeTabId}

\* C20: for a command whose name is none of ping, fill, click, assertText the
\* agent reports that it received a command and does nothing else: whatever
\* the document holds, no error event and no event of a DOM operation is
\* sent and no reply is given; the document and the agent stay as they are and
\* the commands queued behind it are handled next.
KnownCommands == {"ping", "fill", "click", "assertText"}
EventsOf(msgs) == [k \in 1..Len(msgs) |-> msgs[k].event]
C20_UnknownCommandIgnored ==
    [][\A o \in DomOutcomes :
          (/\ agentOnCommand(o, SearchForm, MaxSeqLogs)
           /\ frame.doc # NoDoc
           /\ Head(cmds).command \notin KnownCommands) =>
              /\ EventsOf(inbox') = EventsOf(inbox) \o <<"command_received">>
              /\ cmds' = Tail(cmds)
              /\ frame' = frame
              /\ runs' = runs]_vars
C20_Witness ==
    /\ cmds = <<>>
    /\ logs = <<>>
    /\ EventsOf(inbox) = <<"command_received", "command_received", "autofilled">>

\* C21: when the DOM operation of a fill, click or assertText command raises
\* an exception, the agent sends, after command_received, exactly one error
\* event whose payload is {what: the command's name, message: a text}, and
\* nothing else; the handler returns normally: the document and the agent stay
\* as they are and the commands queued behind it are handled next.
Sent == SubSeq(inbox', Len(inbox) + 1, Len(inbox'))
TryCommands == {"fill", "click", "assertText"}
C21_ThrowingCommandReportsOneError ==
    [][(/\ agentOnCommand("throws", SearchForm, MaxSeqLogs)
        /\ frame.doc # NoDoc
        /\ Head(cmds).command \in TryCommands) =>
           /\ EventsOf(Sent) = <<"command_received", "error">>
           /\ keys(Sent[2].payload) = <<WHAT, MESSAGE>>
           /\ values(Sent[2].payload)[1] = commandChars(Head(cmds).command)
           /\ values(Sent[2].payload)[2] # <<>>
           /\ cmds' = Tail(cmds)
           /\ frame' = frame]_vars
C21_Witness ==
    /\ cmds = <<>>
    /\ EventsOf(inbox) = <<"command_received", "error", "command_received", "autofilled">>
    /\ values(inbox[2].payload) = <<commandChars("assertText"), Thrown>>

\* C22: an assertText command with a reply port whose DOM query returns gets
\* one {ok} on its port and one assert_result event, nothing else after
\* command_received; both carry the same boolean, which is true exactly when
\* the selected element exists and its text contains the expected text; and
\* when the reply settles the step, before the timer, the step's result and
\* its pass/fail record are that boolean.
ElementHasText(c, o) ==
    /\ selected(c, o).exists
    /\ includes(selected(c, o).textContent, textChars(c.includes))
LastOf(seq) == seq[Len(seq)]
C22_ReplyAndEventAgree ==
    [][/\ \A o \in DomOutcomes \ {"throws"} :
            (/\ agentOnCommand(o, SearchForm, MaxAssertLogs)
             /\ frame.doc # NoDoc
             /\ Head(cmds).command = "assertText"
             /\ Head(cmds).port
             /\ Head(cmds).run \in 1..Len(runs)) =>
                /\ EventsOf(Sent) = <<"command_received", "assert_result">>
                /\ LastOf(values(Sent[2].payload)) = boolChars(ElementHasText(Head(cmds), o))
                /\ runs'[Head(cmds).run].reply.step = Head(cmds).step
                /\ runs'[Head(cmds).run].reply.ok = ElementHasText(Head(cmds), o)
       /\ \A r \in 1..Len(runs) :
            assertReply(r) =>
                /\ LastOf(runs'[r].asserts) = <<runs[r].pc, runs[r].reply.ok>>
                /\ Len(logs') = Len(logs) + 1
                /\ logs'[1].msg.text = chars(IF runs[r].reply.ok THEN "assert OK"
                                                                 ELSE "assert FAILED")]_vars
C22_Witness ==
    /\ Len(runs) = 1
    /\ runs[1].asserts # <<>>
    /\ runs[1].asserts[1] = <<1, FALSE>>
    /\ runs[1].assertBy[1] = [kind |-> "reply", outcome |-> "mismatch"]
    /\ \E k \in 1..Len(logs) :
          /\ startsWith(logs[k].msg.text, chars("assert_result"))
          /\ LastOf(values(logs[k].msg.json)) = boolChars(FALSE)

\* C23: the autofilled event of a fill command lists exactly the selectors
\* whose element was found and had its value set; a selector of the command
\* that matched no settable element is not in the list.
C23_AutofilledListsTouchedFields ==
    [][\A o \in DomOutcomes \ {"throws"} :
          (/\ agentOnCommand(o, SearchForm, MaxSeqLogs)
           /\ frame.doc # NoDoc
           /\ Head(cmds).command = "fill") =>
              /\ EventsOf(Sent) = <<"command_received", "autofilled">>
              /\ keys(Sent[2].payload) = <<FIELDS>>
              /\ values(Sent[2].payload) = <<join(touched(Head(cmds), o), COMMA)>>]_vars

\* C24: both logs only grow, at the head: a step leaves a log as it is or
\* puts exactly one new record in front of the records it held, which stay as
\* they were and where they were; and the alert log changes only in the step
\* in which the intake handles an agentic:event message.
GrowsBy(old, new, n) ==
    /\ Len(new) = Len(old) + n
    /\ SubSeq(new, n + 1, Len(new)) = old
IntakeStep ==
    /\ inbox # <<>>
    /\ inbox' = Tail(inbox)
    /\ Head(inbox).data
    /\ Head(inbox).type = "agentic:event"
C24_LogsGrowOneAtHead ==
    [][/\ \E n \in 0..1 : GrowsBy(logs, logs', n)
       /\ \E n \in 0..1 : GrowsBy(alerts, alerts', n)
       /\ alerts' # alerts => IntakeStep]_vars

\* C24, as the code has it: the event log grows by at most one record a step
\* and the alert log by one record for each rule that fires in the step, two
\* for a form_submit with a password field and a <script value.
C24_LogsGrowAtHead ==
    [][/\ \E n \in 0..1 : GrowsBy(logs, logs', n)
       /\ \E n \in 0..2 : GrowsBy(alerts, alerts', n)
       /\ alerts' # alerts =>
             /\ IntakeStep
             /\ Len(alerts') - Len(alerts) =
                  Len(runSecurityChecks(Head(inbox).event, Head(inbox).payload,
                                        activeTabId, effectLogs, now))]_vars
C24_Witness ==
    /\ Len(alerts) = 2
    /\ alerts[1].kind = "PotentialXSS"
    /\ alerts[2].kind = "SensitiveSubmit"
    /\ Len(tabs) = 1
    /\ Len(closed) = 1
    /\ \E k \in 1..Len(logs) : logs[k].msg.text = chars("assert FAILED")

\* C25: when a run of the sample workflow on the one tab, against conformant
\* fixtures and with no other action of the user, is through and every message
\* is handled, the log holds exactly two assertion records, both of them
\* assert OK, and the alert log holds a SensitiveSubmit alert.
SampleRunThrough ==
    /\ Len(runs) = 1
    /\ runs[1].at = "done"
    /\ inbox = <<>>
C25_SampleRunPasses ==
    SampleRunThrough =>
        /\ Cardinality(AssertLogs(runs[1].tab, TRUE)) = 2
        /\ Cardinality(AssertLogs(runs[1].tab, FALSE)) = 0
        /\ \E k \in 1..Len(alerts) : alerts[k].kind = "SensitiveSubmit"

\* C26: every workflow run terminates: once started, a run reaches Completed
\* (done) or Aborted, given that fetches settle and timers fire.
RunEnded == runs # <<>> /\ runs[1].at \in {"done", "aborted"}
C26_EveryRunTerminates == (runs # <<>>) ~> RunEnded

\* C27: redundant ready events are harmless to the readiness wait: whatever
\* ready messages, load signals and timeouts occur, each waitForIframeReady
\* calls resolve() at most once, the run waits exactly as long as it has not,
\* once it resolved its message listener, load listener and timer are all
\* removed, and a ready message or load signal that comes after that leaves
\* the run as it is.
ReadyHandled == inbox # <<>> /\ isReady(Head(inbox)) /\ inbox' = Tail(inbox)
LoadFired == frame.loadPending /\ ~frame'.loadPending /\ frame'.doc = frame.doc
WaitsClean ==
    \A r \in 1..Len(runs) :
        LET w == runs[r].wait IN
        /\ w.resolved <= 1
        /\ w.resolved = 1 => ~w.onMsg /\ ~w.onLoad /\ ~w.tid
        /\ runs[r].at = "ready" <=> (w.onMsg /\ w.tid /\ w.resolved = 0)
C27_ReadinessWaitResolvesOnce ==
    /\ []WaitsClean
    /\ [][ReadyHandled \/ LoadFired =>
            \A r \in 1..Len(runs) : runs[r].at # "ready" => runs'[r] = runs[r]]_vars

\* a wait that a ready message resolved, with a second ready of the same
\* document queued and the iframe's load still to come
C27_Witness ==
    \E r \in 1..Len(runs) :
        /\ runs[r].wait.resolved = 1
        /\ runs[r].readyBy.kind = "ready"
        /\ frame.loadPending
        /\ \E k \in 1..Len(inbox) : isReady(inbox[k]) /\ ~inbox[k].old

\* C28: closing the run's target context while the run is suspended does not
\* cancel the run and does not bring the context back: a closed id is never
\* in the context set again, and when the run has ended every assertText
\* step of it has its assertion record in the log.
AssertSteps(r) == {k \in 1..Len(runs[r].steps) : runs[r].steps[k].type = "assertText"}
TargetClosed(r) == \E k \in 1..Len(closed) : closed[k].id = runs[r].tab
C28_CloseDoesNotCancelRun ==
    /\ \A k \in 1..Len(closed) : closed[k].id \notin TabIds(tabs)
    /\ \A r \in 1..Len(runs) :
         TargetClosed(r) /\ runs[r].at = "done" =>
             Cardinality(AssertLogs(runs[r].tab, TRUE) \cup AssertLogs(runs[r].tab, FALSE))
                 = Cardinality(AssertSteps(r))

\* C29: closeTab(id) for a tab that is not the active one removes exactly that
\* tab and changes nothing else: the other tabs keep their order and fields,
\* and the active id, the log, the alerts, the loads, the iframe's document
\* and the queued messages stay as they are; for an id that is not in the tab
\* set nothing changes at all.
C29_CloseInactiveChangesOnlyTabs ==
    [][\A id \in 1..MaxTabs :
          (id # activeTabId /\ closeTab(id)) =>
              /\ tabs' = SelectSeq(tabs, LAMBDA t : t.id # id)
              /\ id \notin TabIds(tabs) => tabs' = tabs
              /\ activeTabId' = activeTabId
              /\ logs' = logs /\ alerts' = alerts /\ effectLogs' = effectLogs
              /\ loads' = loads /\ runs' = runs /\ nextId' = nextId
              /\ frame' = frame /\ inbox' = inbox /\ cmds' = cmds
              /\ crashed' = crashed]_vars

\* a tab that was not active was closed where three were open and others
\* followed it, an id not in the tab set was closed too, and the log and the
\* alerts hold records
C29_Witness ==
    /\ \E k \in 1..Len(closed) :
         /\ closed[k].id # closed[k].active
         /\ Len(closed[k].before) = 3
         /\ closed[k].before[1].id = closed[k].id
    /\ \E k \in 1..Len(closed) :
         closed[k].id \notin {closed[k].before[j].id : j \in 1..Len(closed[k].before)}
    /\ logs # <<>>
    /\ alerts # <<>>

====
